---- MODULE Spec2Model ----
(***************************************************************************)
(* Receipt verification pipeline of confirmit-nest-server:                 *)
(* ReceiptsService (scanReceipt, analyzeReceiptAsync, getUserFriendlyError,*)
(* getReceipt, anchorReceiptToHedera), ReceiptsGateway (emitProgress,      *)
(* emitComplete, emitError) and HederaService.anchorToHCS.                 *)
(*                                                                         *)
(* Every `await` of the source is a point where the task is suspended; the *)
(* model has one action per continuation and per outcome of the awaited    *)
(* call (resolved / rejected).  Strings are TLA+ strings, and              *)
(* String.prototype.includes is computed character by character.           *)
(***************************************************************************)
EXTENDS Integers, Sequences, FiniteSets, TLC

----------------------------------------------------------------------------
(* Bounds *)

\* Largest number of topic messages submitted by anchor requests in a run
\* (the pipeline submits at most one per receipt).
MaxRequestMsgs == 1

\* Largest number of receipts submitted in a run.
MaxJobs == 1

\* Largest number of items of an array handed to stripUndefinedDeep on its own.
MaxItems == 2

\* Largest number of entries of a forensic findings list handed to the split.
MaxFindings == 7

\* Largest number of events emitted to the rooms, and of 'subscribe' messages
\* handled, when the gateway is run on its own.
MaxEmits == 2
MaxSubscribes == 2

----------------------------------------------------------------------------
(* Values *)

\* Two receipt ids produced by generateReceiptId (distinct with timestamp+random).
Jobs == {"RCP-A", "RCP-B"}

\* Two socket ids (client.id) of the /receipts namespace.
Clients == {"c1", "c2"}

\* JavaScript undefined where a string is expected, and a document field that
\* was never written.
Undefined == "<undefined>"
Absent == "<absent>"

\* A nullable object or number is a sequence: <<>> is null/undefined, <<v>> is v.
NullObj == << >>
Some(v) == << v >>

\* JavaScript truthiness of a string-or-undefined value, as used by `a || b`.
Truthy(v) == v # Undefined /\ v # ""

\* String.prototype.includes
Includes(s, pat) ==
  \E i \in 1..(Len(s) - Len(pat) + 1) : SubSeq(s, i, i + Len(pat) - 1) = pat

----------------------------------------------------------------------------
(* JavaScript values of the analyzer's answer *)

\* A value is a tagged tuple.  An object is a function from its keys; "text"
\* is the string JSON.stringify produced for the value it carries, "string"
\* any other string (none of those used here parses as JSON).
JUndefined == << "undefined" >>
JNull == << "null" >>
JNum(n) == << "number", n >>
JStr(s) == << "string", s >>
JArr(a) == << "array", a >>
JObj(f) == << "object", f >>
JText(v) == << "text", v >>

EmptyArr == JArr(<< >>)
EmptyObj == JObj(<< >>)

TypeOf(v) == v[1]
IsNullish(v) == TypeOf(v) \in {"undefined", "null"}
NotNullish(v) == ~IsNullish(v)
IsString(v) == TypeOf(v) \in {"string", "text"}

\* Truthiness, as used by `value && ...` and `a || b`.
JsTruthy(v) ==
  CASE IsNullish(v) -> FALSE
    [] TypeOf(v) = "number" -> v[2] # 0
    [] TypeOf(v) = "string" -> v[2] # ""
    [] OTHER -> TRUE

\* a || b
OrElse(a, b) == IF JsTruthy(a) THEN a ELSE b

\* obj[key]
Get(obj, key) ==
  IF TypeOf(obj) = "object" /\ key \in DOMAIN obj[2] THEN obj[2][key] ELSE JUndefined

\* JSON.parse(JSON.stringify(v)) for a defined v: properties holding undefined
\* are dropped, undefined array items become null.
RECURSIVE JsonRoundTrip(_)
JsonRoundTrip(v) ==
  CASE TypeOf(v) = "array" ->
         JArr([i \in 1..Len(v[2]) |->
                 IF TypeOf(v[2][i]) = "undefined" THEN JNull
                 ELSE JsonRoundTrip(v[2][i])])
    [] TypeOf(v) = "object" ->
         JObj([k \in {x \in DOMAIN v[2] : TypeOf(v[2][x]) # "undefined"} |->
                 JsonRoundTrip(v[2][k])])
    [] OTHER -> v

\* JSON.stringify(v): a string, which JSON.parse turns back into a value.
JSONstringify(v) == JText(JsonRoundTrip(v))

----------------------------------------------------------------------------
(* stripUndefinedDeep *)

ExcludedKeys == {"heatmap", "pixel_diff", "ela_analysis"}
StringifiedKeys == {"technical_details", "forensic_findings", "agent_logs"}

\* const stripUndefinedDeep = (obj) => { ... }
RECURSIVE stripUndefinedDeep(_)
stripUndefinedDeep(obj) ==
  IF IsNullish(obj) THEN JNull
  ELSE IF TypeOf(obj) \notin {"array", "object"} THEN obj
  ELSE IF TypeOf(obj) = "array"
    THEN IF Len(obj[2]) > 0 /\ TypeOf(obj[2][1]) = "array"
           THEN JSONstringify(obj)
           ELSE JArr(SelectSeq([i \in 1..Len(obj[2]) |-> stripUndefinedDeep(obj[2][i])],
                               NotNullish))
  ELSE LET o == obj[2]
           kept == {k \in DOMAIN o :
                      /\ TypeOf(o[k]) # "undefined"
                      /\ k \notin ExcludedKeys
                      /\ k \in StringifiedKeys => JsTruthy(o[k])}
       IN  JObj([k \in kept |->
                   IF k \in StringifiedKeys
                     THEN IF IsString(o[k]) THEN o[k] ELSE JSONstringify(o[k])
                     ELSE stripUndefinedDeep(o[k])])

----------------------------------------------------------------------------
(* Messages of the source *)

AiTimeoutMessage ==
  "AI analysis timed out. The image might be too large or the service is busy. Please try again."
AiUnavailableMessage ==
  "AI service is currently unavailable. Our team has been notified. Please try again in a few minutes."
AiGenericMessage == "AI analysis failed. Please try again with a clearer image."

FriendlyTimeout ==
  "Analysis timed out. The image might be too large. Please try a smaller image."
FriendlyUnavailable ==
  "Service temporarily unavailable. Please try again in a few minutes."
FriendlyInvalidImage ==
  "Invalid image format. Please upload a JPG, PNG, or PDF file."
FriendlyTooLarge ==
  "Analysis data is too large to store. This is a system limitation we are working to resolve."
UnknownError == "Unknown error"

\* (mainSize / 1024).toFixed(2)
KbFixed2(mainSize) ==
  LET h == (mainSize * 200 + 1024) \div 2048
      frac == h % 100
  IN  ToString(h \div 100) \o "." \o (IF frac < 10 THEN "0" ELSE "") \o ToString(frac)

\* A plausible slip: the message is reworded.
PayloadTooLargeMessage_Reworded(mainSize) ==
  "Main payload size " \o KbFixed2(mainSize) \o "KB is over the Firestore 1MB limit"

\* `Main payload size ${kb}KB exceeds Firestore 1MB limit`
PayloadTooLargeMessage(mainSize) ==
  "Main payload size " \o KbFixed2(mainSize) \o "KB exceeds Firestore 1MB limit"

----------------------------------------------------------------------------
(* getUserFriendlyError *)

\* A plausible slip: the `|| 'Unknown error'` fallback is forgotten.
getUserFriendlyError_NoFallback(errMessage) ==
  LET message == errMessage
  IN  IF message = Undefined \/ message = "" THEN ""
      ELSE IF Includes(message, "timeout") THEN FriendlyTimeout
      ELSE IF Includes(message, "unavailable") \/ Includes(message, "ECONNREFUSED")
        THEN FriendlyUnavailable
      ELSE IF Includes(message, "invalid image") \/ Includes(message, "format")
        THEN FriendlyInvalidImage
      ELSE IF Includes(message, "too large") \/ Includes(message, "exceeds")
        THEN FriendlyTooLarge
      ELSE message

\* getUserFriendlyError(error), as a function of error.message.
getUserFriendlyError(errMessage) ==
  LET message == IF Truthy(errMessage) THEN errMessage ELSE UnknownError
  IN  IF Includes(message, "timeout") THEN FriendlyTimeout
      ELSE IF Includes(message, "unavailable") \/ Includes(message, "ECONNREFUSED")
        THEN FriendlyUnavailable
      ELSE IF Includes(message, "invalid image") \/ Includes(message, "format")
        THEN FriendlyInvalidImage
      ELSE IF Includes(message, "too large") \/ Includes(message, "exceeds")
        THEN FriendlyTooLarge
      ELSE message

----------------------------------------------------------------------------
(* Environment: what the collaborators can answer *)

\* Errors axios.post can reject with (code, message, response.data.detail,
\* response.data.message); the last one is the TypeError raised inside the
\* inner try by Object.keys(analysisResult) when a 2xx answer has no body.
AxiosTimeouts ==
  { [code |-> "ECONNABORTED", message |-> "timeout of 180000ms exceeded",
     detail |-> Undefined, bodyMessage |-> Undefined],
    [code |-> "ETIMEDOUT", message |-> "timeout of 180000ms exceeded",
     detail |-> Undefined, bodyMessage |-> Undefined] }

AxiosDown ==
  { [code |-> "ECONNREFUSED", message |-> "connect ECONNREFUSED 127.0.0.1:8000",
     detail |-> Undefined, bodyMessage |-> Undefined],
    [code |-> "ENOTFOUND", message |-> "getaddrinfo ENOTFOUND ai-service",
     detail |-> Undefined, bodyMessage |-> Undefined] }

\* Message bodies of a non-2xx answer.
UpstreamDetails ==
  { Undefined, "", "Could not read receipt", "Unsupported image format" }
UpstreamMessages == { Undefined, "Internal Server Error" }

AxiosRejected ==
  { [code |-> "ERR_BAD_RESPONSE", message |-> "Request failed with status code 500",
     detail |-> d, bodyMessage |-> m] : d \in UpstreamDetails, m \in UpstreamMessages }

AxiosNoBody ==
  { [code |-> Undefined, message |-> "Cannot convert undefined or null to object",
     detail |-> Undefined, bodyMessage |-> Undefined] }

AiErrors == AxiosTimeouts \cup AxiosDown \cup AxiosRejected \cup AxiosNoBody

\* Message of the error uploadToCloudinary rejects with.
UploadError == "Upload failed"

\* Messages of errors thrown by the document store and by the ledger client.
PersistenceErrors == { "14 UNAVAILABLE: No connection established" }
LedgerErrors == { "", "INSUFFICIENT_PAYER_BALANCE" }

\* Analyzer answers (2xx).  ocr_len is the length of ocr_text in UTF-16 code
\* units and ocr_bytes its length in UTF-8 bytes; the text itself is not
\* needed, only its contribution to the payload size.
\* An ordinary answer: scores, a short text, a small forensic report.
OrdinaryAnswer ==
  [trust_score |-> Some(92), verdict |-> "authentic",
   ocr_len |-> 120, ocr_bytes |-> 120,
   forensic_details |->
     JObj([manipulation_score |-> JNum(12),
           forensic_findings |-> JArr(<< JStr("F1") >>),
           heatmap |-> JArr(<< JArr(<< JNum(3) >>) >>)]),
   agent_logs |-> JUndefined]

\* An answer without scores or forensic report whose text is 1 MiB long.
HugeTextAnswer ==
  [trust_score |-> NullObj, verdict |-> Undefined,
   ocr_len |-> 1048576, ocr_bytes |-> 1048576,
   forensic_details |-> JUndefined, agent_logs |-> JUndefined]

AnalyzerResults == { OrdinaryAnswer, HugeTextAnswer }

----------------------------------------------------------------------------
(* analyzeReceiptAsync: the error thrown by the inner catch *)

\* A plausible slip: response.data.message is not consulted.
AiThrownMessage_DetailOnly(e) ==
  IF e.code = "ECONNABORTED" \/ Includes(e.message, "timeout")
    THEN AiTimeoutMessage
  ELSE IF e.code = "ECONNREFUSED" \/ e.code = "ENOTFOUND"
    THEN AiUnavailableMessage
  ELSE IF Truthy(e.detail) THEN e.detail
  ELSE AiGenericMessage

\* catch (aiError) { ... throw new Error(...) }
AiThrownMessage(e) ==
  IF e.code = "ECONNABORTED" \/ Includes(e.message, "timeout")
    THEN AiTimeoutMessage
  ELSE IF e.code = "ECONNREFUSED" \/ e.code = "ENOTFOUND"
    THEN AiUnavailableMessage
  ELSE IF Truthy(e.detail) THEN e.detail
  ELSE IF Truthy(e.bodyMessage) THEN e.bodyMessage
  ELSE AiGenericMessage

\* The inner catch over every error axios.post can reject with, tabulated.
AiThrown == [e \in AiErrors |-> AiThrownMessage(e)]

----------------------------------------------------------------------------
(* analyzeReceiptAsync: payloads *)

\* LAYER 1 and 2, on the keys of the answer that hold structured data.
RawAnswer(r) ==
  JObj([forensic_details |-> r.forensic_details, agent_logs |-> r.agent_logs])

Step2(r) == JsonRoundTrip(stripUndefinedDeep(RawAnswer(r)))

\* LAYER 3: const safeParse = (data) => { ... }
safeParse(data) == IF TypeOf(data) = "text" THEN data[2] ELSE data

\* The five keys LAYER 3 assigns, with the value each falls back to.
ParsedDefaults ==
  [forensic_findings |-> EmptyArr, technical_details |-> EmptyObj,
   heatmap |-> EmptyArr, pixel_diff |-> EmptyObj, forensic_progress |-> EmptyArr]

\* forensicDetails after LAYER 3.
ForensicDetails(r) ==
  LET fd == OrElse(Get(Step2(r), "forensic_details"), EmptyObj)
  IN  JObj([k \in DOMAIN fd[2] \cup DOMAIN ParsedDefaults |->
              IF k \in DOMAIN ParsedDefaults
                THEN OrElse(safeParse(Get(fd, k)), ParsedDefaults[k])
                ELSE fd[2][k]])

\* const agentLogs = safeParse(step2.agent_logs) || []
AgentLogs(r) == OrElse(safeParse(Get(Step2(r), "agent_logs")), EmptyArr)

\* A plausible slip: the excerpt is one entry longer.
FindingsExcerpt_Wide == 2 * 3

\* forensic_findings.slice(0, 5)
FindingsExcerpt == 5

Slice(a, n) == SubSeq(a, 1, IF Len(a) < n THEN Len(a) ELSE n)

LightKeys ==
  { "ocr_confidence", "manipulation_score", "metadata_flags", "forensic_verdict",
    "forensic_summary", "suspicious_regions_count", "manipulation_detected",
    "techniques_detected", "authenticity_indicators", "forensic_findings",
    "agent_logs", "forensic_progress" }

\* LAYER 4: const lightForensics = { ... }
lightForensics(r) ==
  LET fd == ForensicDetails(r)
      ff == Get(fd, "forensic_findings")
  IN  JObj([k \in LightKeys |->
              IF k = "forensic_findings"
                THEN IF TypeOf(ff) = "array" THEN JArr(Slice(ff[2], FindingsExcerpt))
                     ELSE ff
              ELSE IF k = "agent_logs" THEN AgentLogs(r)
              ELSE IF k = "forensic_progress" THEN OrElse(Get(fd, k), EmptyArr)
              ELSE Get(fd, k)])

\* LAYER 4: const sidecarData = { ... }
sidecarData(r) ==
  LET fd == ForensicDetails(r)
  IN  JObj([heatmap |-> OrElse(Get(fd, "heatmap"), EmptyArr),
            pixel_diff |-> OrElse(Get(fd, "pixel_diff"), EmptyObj),
            technical_details |-> OrElse(Get(fd, "technical_details"), EmptyObj),
            ela_analysis |-> OrElse(Get(fd, "ela_analysis"), EmptyObj),
            agent_logs |-> AgentLogs(r),
            forensic_progress |-> OrElse(Get(fd, "forensic_progress"), EmptyArr),
            forensic_findings_full |-> OrElse(Get(fd, "forensic_findings"), EmptyArr),
            image_dimensions |-> Get(fd, "image_dimensions"),
            statistics |-> Get(fd, "statistics")])

\* const mainPayload = { ..., analysis: {...}, status: 'completed' }, cleaned.
MainAnalysis(r) ==
  [trust_score |-> IF r.trust_score = NullObj THEN 0 ELSE r.trust_score[1],
   verdict |-> IF Truthy(r.verdict) THEN r.verdict ELSE "unknown",
   forensic_details |-> stripUndefinedDeep(lightForensics(r))]

\* const cleanedSidecar = stripUndefinedDeep(sidecarData)
CleanedSidecar(r) == stripUndefinedDeep(sidecarData(r))

\* LAYERS 1-5 over every answer of the analyzer, tabulated.
Split ==
  [r \in AnalyzerResults |-> [main |-> MainAnalysis(r), sidecar |-> CleanedSidecar(r)]]

\* Serialized length of the cleaned main payload around ocr_text (keys,
\* defaults, a four-digit processing_time).
MainSkeletonSize == 243
FirestoreLimit == 1048576

\* JSON.stringify(cleanedMain).length
MainSize(r) == MainSkeletonSize + r.ocr_len

\* Messages of the errors the outer catch of analyzeReceiptAsync can receive:
\* the inner catch's, the size check's, the document store's, the ledger's.
ThrownMessages ==
  { AiThrown[e] : e \in AiErrors }
    \cup { PayloadTooLargeMessage(MainSize(r)) : r \in AnalyzerResults }
    \cup PersistenceErrors \cup LedgerErrors

\* getUserFriendlyError over every message the catch can receive, tabulated.
Friendly == [m \in ThrownMessages |-> getUserFriendlyError(m)]

----------------------------------------------------------------------------
(* State *)

VARIABLES
  doc,                \* receipts/{id}: the job record in the document store
  sidecar,            \* receipts/{id}/details/forensics: the sidecar document
  events,             \* what the gateway emitted to room {id}, in order
  pc,                 \* where scanReceipt / analyzeReceiptAsync of {id} stands
  anchorOnHedera,     \* dto.anchorOnHedera of the scan request
  mainPayload,        \* analysis of the payload the task is about to commit
  caught,             \* the error the task's catch block received: the
                      \* awaited step that threw it and its message
  userFriendlyError,  \* the message computed by the catch block
  scanReturn,         \* what scanReceipt gave its caller: "ok" (the job
                      \* id) or the message of the error it threw
  ledger,             \* number of topic messages the ledger holds for {id},
                      \* by submitter: the pipeline's task, anchor requests
  hcsTx,              \* transaction of the task's anchorToHCS call in flight
  areq,               \* the anchorReceiptToHedera request in flight: where it
                      \* stands, its receipt id, its anchorToHCS transaction,
                      \* what it handed to the controller
  analysisResult,     \* the analyzer's answer the task holds (aiResponse.data)
  sanInput,           \* a value handed to stripUndefinedDeep on its own
  sanPasses,          \* what successive applications to it returned
  splitInput,         \* an analyzer answer handed to LAYERS 1-5 on their own
  splitOutput,        \* the two cleaned payloads and the size check's verdict
  sockets,            \* each socket of the namespace: not yet connected
                      \* ("fresh"), connected ("open") or disconnected
  connectedClients,   \* the gateway's map client.id -> count (0: no entry)
  rooms,              \* the rooms (receipt ids) each socket has joined
  inbox               \* the messages each client received, in order

gatewayVars == << sockets, connectedClients, rooms, inbox >>

sanVars == << sanInput, sanPasses, splitInput, splitOutput, gatewayVars >>

serviceVars == << doc, sidecar, events, pc, anchorOnHedera, mainPayload, caught,
                  userFriendlyError, scanReturn, ledger, hcsTx, areq,
                  analysisResult, gatewayVars >>

\* Everything but `events` and the gateway.
pipelineVars == << doc, sidecar, pc, anchorOnHedera, mainPayload, caught,
                   userFriendlyError, scanReturn, ledger, hcsTx, areq,
                   analysisResult, sanInput, sanPasses, splitInput, splitOutput >>

vars == << doc, sidecar, events, pc, anchorOnHedera, mainPayload, caught,
           userFriendlyError, scanReturn, ledger, hcsTx, areq, analysisResult,
           sanVars >>

\* The task's catch block has not run.
NothingCaught == [step |-> "none", message |-> Undefined]

\* No anchorReceiptToHedera request is in flight.
NoRequest == [pc |-> "idle", job |-> "", tx |-> 0, response |-> NullObj]

RECURSIVE SumOver(_, _)
SumOver(f, S) ==
  IF S = {} THEN 0
  ELSE LET x == CHOOSE y \in S : TRUE IN f[x] + SumOver(f, S \ {x})

\* Number of messages about receipt j the HCS topic holds, and number of
\* messages anchor requests submitted.
TopicMessages(j) == ledger[j].task + ledger[j].request
RequestMsgs == SumOver([j \in Jobs |-> ledger[j].request], Jobs)

\* The record before scanReceipt created it.
NoRecord ==
  [exists |-> FALSE, status |-> Absent, analysis |-> NullObj,
   hedera_anchor |-> NullObj, error |-> Absent,
   receipt_id |-> Absent, user_id |-> Absent, storage_path |-> Absent,
   cloudinary_public_id |-> Absent]

\* The service after construction: no receipt was submitted.
ServiceInit ==
  /\ doc = [j \in Jobs |-> NoRecord]
  /\ sidecar = [j \in Jobs |-> NullObj]
  /\ events = [j \in Jobs |-> << >>]
  /\ pc = [j \in Jobs |-> "idle"]
  /\ anchorOnHedera = [j \in Jobs |-> FALSE]
  /\ mainPayload = [j \in Jobs |-> NullObj]
  /\ caught = [j \in Jobs |-> NothingCaught]
  /\ userFriendlyError = [j \in Jobs |-> Absent]
  /\ scanReturn = [j \in Jobs |-> "none"]
  /\ ledger = [j \in Jobs |-> [task |-> 0, request |-> 0]]
  /\ hcsTx = [j \in Jobs |-> 0]
  /\ areq = NoRequest
  /\ analysisResult = [j \in Jobs |-> NullObj]
  /\ sockets = [c \in Clients |-> "fresh"]
  /\ connectedClients = [c \in Clients |-> 0]
  /\ rooms = [c \in Clients |-> {}]
  /\ inbox = [c \in Clients |-> << >>]

Init ==
  /\ ServiceInit
  /\ sanInput = JUndefined
  /\ sanPasses = << >>
  /\ splitInput = NullObj
  /\ splitOutput = NullObj

----------------------------------------------------------------------------
(* ReceiptsGateway *)

\* Percentages passed to emitProgress.
PctUploading == 5
PctUploadComplete == 15
PctOcrStarted == 20
\* A plausible slip: a percentage below the one emitted before it.
PctForensicsRunning_Low == PctUploadComplete - 5
PctForensicsRunning == 40
PctAnalysisComplete == 80
PctHederaAnchoring == 90
PctDone == 100

emitProgress(ev, j, progress, status) ==
  [ev EXCEPT ![j] = Append(@, [type |-> "progress", progress |-> progress,
                               status |-> status])]

emitComplete(ev, j, data) ==
  [ev EXCEPT ![j] = Append(@, [type |-> "complete", data |-> data])]

emitError(ev, j, error) ==
  [ev EXCEPT ![j] = Append(@, [type |-> "error", error |-> error])]

----------------------------------------------------------------------------
(* Document store writes *)

\* dto of the scan request of each receipt: one names its user, one does not.
Dto == [j \in Jobs |-> [userId |-> IF j = "RCP-A" THEN "user-1" ELSE Undefined]]

\* What uploadToCloudinary resolves with.
UploadResult ==
  [j \in Jobs |-> [secure_url |-> "https://res.cloudinary.com/" \o j,
                   public_id |-> "confirmit/receipts/" \o j]]

\* The fields scanReceipt writes once, at creation.
IntakeFields == { "receipt_id", "user_id", "storage_path", "cloudinary_public_id" }

\* db.collection('receipts').doc(receiptId).set({... status: 'processing' ...})
CreateRecord ==
  [j \in Jobs |->
     [exists |-> TRUE, status |-> "processing", analysis |-> NullObj,
      hedera_anchor |-> NullObj, error |-> Absent,
      receipt_id |-> j,
      user_id |-> IF Truthy(Dto[j].userId) THEN Dto[j].userId ELSE "anonymous",
      storage_path |-> UploadResult[j].secure_url,
      cloudinary_public_id |-> UploadResult[j].public_id]]

\* A plausible slip: the main payload carries the analysis but not the status.
CompletionWrite_NoStatus(d, analysis) ==
  [d EXCEPT !.exists = TRUE, !.analysis = analysis]

\* batch.set(receiptRef, cleanedMain, { merge: true })
CompletionWrite(d, analysis) ==
  [d EXCEPT !.exists = TRUE, !.status = "completed", !.analysis = analysis]

\* A plausible slip: the update carries the error but not the status.
FailureWrite_NoStatus(d, message) ==
  [d EXCEPT !.error = message]

\* receiptRef.update({ status: 'failed', error: userFriendlyError, ... })
FailureWrite(d, message) ==
  [d EXCEPT !.status = "failed", !.error = message]

\* A plausible slip: set() without merge replaces the record.
AnchorWrite_Replace(d, anchor) ==
  [NoRecord EXCEPT !.exists = TRUE, !.hedera_anchor = anchor]

\* receiptRef.update({ hedera_anchor: hederaResult })
AnchorWrite(d, anchor) ==
  [d EXCEPT !.hedera_anchor = anchor]

\* The anchor object anchorToHCS returns for the n-th message about a receipt.
HederaAnchor(n) == Some([transaction_id |-> n])

\* getReceipt: the record, or 'Receipt not found'.
getReceipt(j) ==
  IF doc[j].exists THEN [success |-> TRUE, data |-> doc[j]]
  ELSE [success |-> FALSE, data |-> NoRecord]

----------------------------------------------------------------------------
(* analyzeReceiptAsync: catch (error) { ... } up to the awaited update *)

Catch(j, step, errMessage) ==
  /\ pc' = [pc EXCEPT ![j] = "fail_write"]
  /\ caught' = [caught EXCEPT ![j] = [step |-> step, message |-> errMessage]]
  /\ userFriendlyError' =
       [userFriendlyError EXCEPT ![j] = Friendly[errMessage]]

----------------------------------------------------------------------------
(* scanReceipt *)

\* generateReceiptId, emitProgress(5), uploadToCloudinary is awaited.
ScanStart(j, flag) ==
  /\ pc[j] = "idle"
  /\ Cardinality({k \in Jobs : pc[k] # "idle"}) < MaxJobs
  /\ anchorOnHedera' = [anchorOnHedera EXCEPT ![j] = flag]
  /\ events' = emitProgress(events, j, PctUploading, "uploading")
  /\ pc' = [pc EXCEPT ![j] = "upload"]
  /\ UNCHANGED << doc, sidecar, mainPayload, caught, userFriendlyError, scanReturn,
                  ledger, hcsTx, areq, analysisResult, sanVars >>

\* The upload resolved: emitProgress(15), the record's set() is awaited.
UploadOk(j) ==
  /\ pc[j] = "upload"
  /\ events' = emitProgress(events, j, PctUploadComplete, "upload_complete")
  /\ pc' = [pc EXCEPT ![j] = "create"]
  /\ UNCHANGED << doc, sidecar, anchorOnHedera, mainPayload, caught, userFriendlyError,
                  scanReturn, ledger, hcsTx, areq, analysisResult, sanVars >>

\* A plausible slip: the record is created before the upload is awaited.
UploadFail_RecordFirst(j) ==
  /\ pc[j] = "upload"
  /\ doc' = [doc EXCEPT ![j] = CreateRecord[j]]
  /\ scanReturn' = [scanReturn EXCEPT ![j] = UploadError]
  /\ pc' = [pc EXCEPT ![j] = "scan_threw"]
  /\ UNCHANGED << sidecar, events, anchorOnHedera, mainPayload,
                  caught, userFriendlyError, ledger, hcsTx, areq,
                  analysisResult, sanVars >>

\* The upload rejected: catch logs and rethrows the error to the caller.
UploadFail(j) ==
  /\ pc[j] = "upload"
  /\ scanReturn' = [scanReturn EXCEPT ![j] = UploadError]
  /\ pc' = [pc EXCEPT ![j] = "scan_threw"]
  /\ UNCHANGED << doc, sidecar, events, anchorOnHedera, mainPayload,
                  caught, userFriendlyError, ledger, hcsTx, areq,
                  analysisResult, sanVars >>

\* set() resolved: analyzeReceiptAsync is called without await and runs up to
\* its first await (emitProgress(20), the OCR timer); scanReceipt returns.
CreateOk(j) ==
  /\ pc[j] = "create"
  /\ doc' = [doc EXCEPT ![j] = CreateRecord[j]]
  /\ events' = emitProgress(events, j, PctOcrStarted, "ocr_started")
  /\ scanReturn' = [scanReturn EXCEPT ![j] = "ok"]
  /\ pc' = [pc EXCEPT ![j] = "ocr_wait"]
  /\ UNCHANGED << sidecar, anchorOnHedera, mainPayload, caught, userFriendlyError,
                  ledger, hcsTx, areq, analysisResult, sanVars >>

\* set() rejected: catch logs and rethrows the error to the caller.
CreateFail(j) ==
  /\ pc[j] = "create"
  /\ \E m \in PersistenceErrors : scanReturn' = [scanReturn EXCEPT ![j] = m]
  /\ pc' = [pc EXCEPT ![j] = "scan_threw"]
  /\ UNCHANGED << doc, sidecar, events, anchorOnHedera, mainPayload,
                  caught, userFriendlyError, ledger, hcsTx, areq,
                  analysisResult, sanVars >>

----------------------------------------------------------------------------
(* analyzeReceiptAsync *)

\* The first timer fired: emitProgress(40), the second timer is awaited.
OcrTimer(j) ==
  /\ pc[j] = "ocr_wait"
  /\ events' = emitProgress(events, j, PctForensicsRunning, "forensics_running")
  /\ pc' = [pc EXCEPT ![j] = "forensics_wait"]
  /\ UNCHANGED << doc, sidecar, anchorOnHedera, mainPayload, caught, userFriendlyError,
                  scanReturn, ledger, hcsTx, areq, analysisResult, sanVars >>

\* The second timer fired: axios.post is awaited.
ForensicsTimer(j) ==
  /\ pc[j] = "forensics_wait"
  /\ pc' = [pc EXCEPT ![j] = "ai_call"]
  /\ UNCHANGED << doc, sidecar, events, anchorOnHedera, mainPayload,
                  caught, userFriendlyError, scanReturn, ledger, hcsTx, areq,
                  analysisResult, sanVars >>

\* The analyzer answered 2xx: emitProgress(80), the payloads are built and
\* measured; over the limit the task throws, else batch.commit() is awaited.
AiOk(j, r) ==
  /\ pc[j] = "ai_call"
  /\ analysisResult' = [analysisResult EXCEPT ![j] = Some(r)]
  /\ events' = emitProgress(events, j, PctAnalysisComplete, "analysis_complete")
  /\ IF MainSize(r) > FirestoreLimit
       THEN /\ Catch(j, "size", PayloadTooLargeMessage(MainSize(r)))
            /\ UNCHANGED mainPayload
       ELSE /\ mainPayload' = [mainPayload EXCEPT ![j] = Some(Split[r].main)]
            /\ pc' = [pc EXCEPT ![j] = "commit"]
            /\ UNCHANGED << caught, userFriendlyError >>
  /\ UNCHANGED << doc, sidecar, anchorOnHedera, scanReturn, ledger, hcsTx,
                  areq, sanVars >>

\* axios.post rejected (or the inner try threw): the inner catch rethrows.
AiFail(j, e) ==
  /\ pc[j] = "ai_call"
  /\ Catch(j, "analyzer", AiThrown[e])
  /\ UNCHANGED << doc, sidecar, events, anchorOnHedera, mainPayload, scanReturn,
                  ledger, hcsTx, areq, analysisResult, sanVars >>

\* A plausible slip: two separate writes, the summary's first; the sidecar's
\* has not happened yet when the task goes on.
CommitOk_SummaryFirst(j) ==
  /\ pc[j] = "commit"
  /\ doc' = [doc EXCEPT ![j] = CompletionWrite(@, mainPayload[j])]
  /\ UNCHANGED sidecar
  /\ IF anchorOnHedera[j]
       THEN /\ events' = emitProgress(events, j, PctHederaAnchoring, "hedera_anchoring")
            /\ pc' = [pc EXCEPT ![j] = "hcs_submit"]
       ELSE /\ events' = emitProgress(events, j, PctDone, "complete")
            /\ pc' = [pc EXCEPT ![j] = "final_get"]
  /\ UNCHANGED << anchorOnHedera, mainPayload, caught, userFriendlyError, scanReturn,
                  ledger, hcsTx, areq, analysisResult, sanVars >>

\* batch.commit() resolved: both documents are written.  With anchorOnHedera
\* emitProgress(90) and anchorToHCS is awaited, else emitProgress(100) and
\* receiptRef.get() is awaited.
CommitOk(j) ==
  /\ pc[j] = "commit"
  /\ doc' = [doc EXCEPT ![j] = CompletionWrite(@, mainPayload[j])]
  /\ sidecar' = [sidecar EXCEPT ![j] = Some(Split[analysisResult[j][1]].sidecar)]
  /\ IF anchorOnHedera[j]
       THEN /\ events' = emitProgress(events, j, PctHederaAnchoring, "hedera_anchoring")
            /\ pc' = [pc EXCEPT ![j] = "hcs_submit"]
       ELSE /\ events' = emitProgress(events, j, PctDone, "complete")
            /\ pc' = [pc EXCEPT ![j] = "final_get"]
  /\ UNCHANGED << anchorOnHedera, mainPayload, caught, userFriendlyError, scanReturn,
                  ledger, hcsTx, areq, analysisResult, sanVars >>

\* batch.commit() rejected: neither document is written.
CommitFail(j, m) ==
  /\ pc[j] = "commit"
  /\ Catch(j, "commit", m)
  /\ UNCHANGED << doc, sidecar, events, anchorOnHedera, mainPayload, scanReturn,
                  ledger, hcsTx, areq, analysisResult, sanVars >>

\* anchorToHCS: TopicMessageSubmitTransaction.execute rejected; nothing was
\* submitted and anchorToHCS rethrows into the task's catch.
HcsSubmitFail(j, m) ==
  /\ pc[j] = "hcs_submit"
  /\ Catch(j, "anchorToHCS", m)
  /\ UNCHANGED << doc, sidecar, events, anchorOnHedera, mainPayload, scanReturn,
                  ledger, hcsTx, areq, analysisResult, sanVars >>

\* anchorToHCS: execute resolved, so the topic holds the message; getRecord or
\* the hedera_anchors add rejected and anchorToHCS rethrows.
HcsRecordFail(j, m) ==
  /\ pc[j] = "hcs_submit"
  /\ ledger' = [ledger EXCEPT ![j].task = @ + 1]
  /\ Catch(j, "anchorToHCS", m)
  /\ UNCHANGED << doc, sidecar, events, anchorOnHedera, mainPayload, scanReturn,
                  hcsTx, areq, analysisResult, sanVars >>

\* anchorToHCS resolved (execute, getRecord and the hedera_anchors add): the
\* anchor is returned and receiptRef.update({hedera_anchor}) is awaited.
HcsOk(j) ==
  /\ pc[j] = "hcs_submit"
  /\ ledger' = [ledger EXCEPT ![j].task = @ + 1]
  /\ hcsTx' = [hcsTx EXCEPT ![j] = TopicMessages(j) + 1]
  /\ pc' = [pc EXCEPT ![j] = "anchor_write"]
  /\ UNCHANGED << doc, sidecar, events, anchorOnHedera, mainPayload,
                  caught, userFriendlyError, scanReturn, areq,
                  analysisResult, sanVars >>

\* update({hedera_anchor}) resolved: emitProgress(100), get() is awaited.
AnchorWriteOk(j) ==
  /\ pc[j] = "anchor_write"
  /\ doc' = [doc EXCEPT ![j] = AnchorWrite(@, HederaAnchor(hcsTx[j]))]
  /\ events' = emitProgress(events, j, PctDone, "hedera_anchored")
  /\ pc' = [pc EXCEPT ![j] = "final_get"]
  /\ UNCHANGED << sidecar, anchorOnHedera, mainPayload, caught, userFriendlyError,
                  scanReturn, ledger, hcsTx, areq, analysisResult, sanVars >>

AnchorWriteFail(j, m) ==
  /\ pc[j] = "anchor_write"
  /\ Catch(j, "anchor_write", m)
  /\ UNCHANGED << doc, sidecar, events, anchorOnHedera, mainPayload, scanReturn,
                  ledger, hcsTx, areq, analysisResult, sanVars >>

\* receiptRef.get() resolved: emitComplete(finalDoc.data()); the task ends.
FinalGetOk(j) ==
  /\ pc[j] = "final_get"
  /\ events' = emitComplete(events, j, doc[j])
  /\ pc' = [pc EXCEPT ![j] = "done"]
  /\ UNCHANGED << doc, sidecar, anchorOnHedera, mainPayload, caught, userFriendlyError,
                  scanReturn, ledger, hcsTx, areq, analysisResult, sanVars >>

FinalGetFail(j, m) ==
  /\ pc[j] = "final_get"
  /\ Catch(j, "final_get", m)
  /\ UNCHANGED << doc, sidecar, events, anchorOnHedera, mainPayload, scanReturn,
                  ledger, hcsTx, areq, analysisResult, sanVars >>

\* The catch block's update resolved: emitError; the task ends.
FailWriteOk(j) ==
  /\ pc[j] = "fail_write"
  /\ doc' = [doc EXCEPT ![j] = FailureWrite(@, userFriendlyError[j])]
  /\ events' = emitError(events, j, userFriendlyError[j])
  /\ pc' = [pc EXCEPT ![j] = "done"]
  /\ UNCHANGED << sidecar, anchorOnHedera, mainPayload, caught, userFriendlyError,
                  scanReturn, ledger, hcsTx, areq, analysisResult, sanVars >>

\* The catch block's update rejected: the task's promise rejects, unhandled.
FailWriteFail(j) ==
  /\ pc[j] = "fail_write"
  /\ pc' = [pc EXCEPT ![j] = "rejected"]
  /\ UNCHANGED << doc, sidecar, events, anchorOnHedera, mainPayload,
                  caught, userFriendlyError, scanReturn, ledger, hcsTx, areq,
                  analysisResult, sanVars >>

----------------------------------------------------------------------------
(* anchorReceiptToHedera (POST /receipts/:id/anchor), one request at a time *)

\* What the handler hands to the controller: a returned object, or an error
\* thrown to the caller (success FALSE, its message, no anchor).
Returned(message, anchor) ==
  Some([success |-> TRUE, message |-> message, hedera_anchor |-> anchor])
Thrown(message) ==
  Some([success |-> FALSE, message |-> message, hedera_anchor |-> NullObj])

ReceiptNotFound == "Receipt not found"
AlreadyAnchored == "Receipt already anchored"
SuccessfullyAnchored == "Successfully anchored to Hedera"

\* The handler is done with `response`.
Finished(response) ==
  [pc |-> "returned", job |-> areq.job, tx |-> 0, response |-> response]

\* The request for receipt j arrives: receiptRef.get() is awaited.
AnchorReqStart(j) ==
  /\ areq.pc = "idle"
  /\ areq' = [pc |-> "get", job |-> j, tx |-> 0, response |-> NullObj]
  /\ UNCHANGED << doc, sidecar, events, pc, anchorOnHedera, mainPayload,
                  caught, userFriendlyError, scanReturn, ledger, hcsTx,
                  analysisResult, sanVars >>

\* get() resolved and the existing anchor is not looked at: anchorToHCS is
\* awaited for every existing receipt.
AnchorReqGetOk_NoCheck ==
  /\ areq.pc = "get"
  /\ areq' = IF ~doc[areq.job].exists THEN Finished(Thrown(ReceiptNotFound))
             ELSE [areq EXCEPT !.pc = "hcs_submit"]
  /\ UNCHANGED << doc, sidecar, events, pc, anchorOnHedera, mainPayload,
                  caught, userFriendlyError, scanReturn, ledger, hcsTx,
                  analysisResult, sanVars >>

\* get() resolved: 'Receipt not found' is thrown, or the existing anchor is
\* returned, or anchorToHCS(receiptId, receiptData.analysis) is awaited.
AnchorReqGetOk ==
  /\ areq.pc = "get"
  /\ areq' = IF ~doc[areq.job].exists THEN Finished(Thrown(ReceiptNotFound))
             ELSE IF doc[areq.job].hedera_anchor # NullObj
               THEN Finished(Returned(AlreadyAnchored, doc[areq.job].hedera_anchor))
             ELSE [areq EXCEPT !.pc = "hcs_submit"]
  /\ UNCHANGED << doc, sidecar, events, pc, anchorOnHedera, mainPayload,
                  caught, userFriendlyError, scanReturn, ledger, hcsTx,
                  analysisResult, sanVars >>

\* get() rejected, or anchorToHCS rejected before the message was submitted,
\* or update() rejected: catch logs and rethrows to the caller.
AnchorReqFail ==
  /\ areq.pc \in {"get", "hcs_submit", "anchor_write"}
  /\ \E m \in (IF areq.pc = "hcs_submit" THEN LedgerErrors ELSE PersistenceErrors) :
       areq' = Finished(Thrown(m))
  /\ UNCHANGED << doc, sidecar, events, pc, anchorOnHedera, mainPayload,
                  caught, userFriendlyError, scanReturn, ledger, hcsTx,
                  analysisResult, sanVars >>

\* anchorToHCS: execute resolved, so the topic holds the message; getRecord or
\* the hedera_anchors add rejected and the request fails.
AnchorReqRecordFail ==
  /\ areq.pc = "hcs_submit"
  /\ RequestMsgs < MaxRequestMsgs
  /\ ledger' = [ledger EXCEPT ![areq.job].request = @ + 1]
  /\ \E m \in LedgerErrors \cup PersistenceErrors : areq' = Finished(Thrown(m))
  /\ UNCHANGED << doc, sidecar, events, pc, anchorOnHedera, mainPayload,
                  caught, userFriendlyError, scanReturn, hcsTx,
                  analysisResult, sanVars >>

\* anchorToHCS resolved: receiptRef.update({hedera_anchor}) is awaited.
AnchorReqHcsOk ==
  /\ areq.pc = "hcs_submit"
  /\ RequestMsgs < MaxRequestMsgs
  /\ ledger' = [ledger EXCEPT ![areq.job].request = @ + 1]
  /\ areq' = [areq EXCEPT !.pc = "anchor_write", !.tx = TopicMessages(areq.job) + 1]
  /\ UNCHANGED << doc, sidecar, events, pc, anchorOnHedera, mainPayload,
                  caught, userFriendlyError, scanReturn, hcsTx,
                  analysisResult, sanVars >>

\* update({hedera_anchor}) resolved: success is returned.
AnchorReqWriteOk ==
  /\ areq.pc = "anchor_write"
  /\ doc' = [doc EXCEPT ![areq.job] = AnchorWrite(@, HederaAnchor(areq.tx))]
  /\ areq' = Finished(Returned(SuccessfullyAnchored, HederaAnchor(areq.tx)))
  /\ UNCHANGED << sidecar, events, pc, anchorOnHedera, mainPayload,
                  caught, userFriendlyError, scanReturn, ledger, hcsTx,
                  analysisResult, sanVars >>

\* The controller hands the handler's result to the HTTP layer.
AnchorReqRespond ==
  /\ areq.pc = "returned"
  /\ areq' = NoRequest
  /\ UNCHANGED << doc, sidecar, events, pc, anchorOnHedera, mainPayload,
                  caught, userFriendlyError, scanReturn, ledger, hcsTx,
                  analysisResult, sanVars >>

----------------------------------------------------------------------------
(* Specifications *)

\* Answers of the analyzer within the timeout that are not a 2xx with a body.
AnalyzerAnswers == AxiosRejected \cup AxiosNoBody

\* Continuations of the pipeline in a fault-free environment: every awaited
\* call resolves, the analyzer answers within its timeout.
TaskStep(j) ==
  \/ UploadOk(j)
  \/ CreateOk(j)
  \/ OcrTimer(j)
  \/ ForensicsTimer(j)
  \/ \E r \in AnalyzerResults : AiOk(j, r)
  \/ \E e \in AnalyzerAnswers : AiFail(j, e)
  \/ CommitOk(j)
  \/ HcsOk(j)
  \/ AnchorWriteOk(j)
  \/ FinalGetOk(j)
  \/ FailWriteOk(j)

\* Faults: the analyzer times out or is unreachable, the blob store, the
\* document store or the ledger client rejects.
FaultStep(j) ==
  \/ UploadFail(j)
  \/ CreateFail(j)
  \/ \E e \in AxiosTimeouts \cup AxiosDown : AiFail(j, e)
  \/ \E m \in PersistenceErrors : CommitFail(j, m)
  \/ \E m \in LedgerErrors : HcsSubmitFail(j, m)
  \/ \E m \in LedgerErrors : HcsRecordFail(j, m)
  \/ \E m \in PersistenceErrors : AnchorWriteFail(j, m)
  \/ \E m \in PersistenceErrors : FinalGetFail(j, m)
  \/ FailWriteFail(j)

\* Steps of an anchor request whose awaited calls resolve.
AnchorReqStep ==
  \/ \E j \in Jobs : AnchorReqStart(j)
  \/ AnchorReqGetOk
  \/ AnchorReqHcsOk
  \/ AnchorReqWriteOk
  \/ AnchorReqRespond

\* An awaited call of an anchor request rejects.
AnchorReqFault ==
  \/ AnchorReqFail
  \/ AnchorReqRecordFail

Next ==
  \/ \E j \in Jobs :
       \/ \E flag \in BOOLEAN : ScanStart(j, flag)
       \/ TaskStep(j)
       \/ FaultStep(j)
  \/ AnchorReqStep
  \/ AnchorReqFault

Spec == Init /\ [][Next]_vars

\* The fault-free environment.  The timers fire, the HTTP client answers or
\* times out, and the stores answer: a suspended task is always resumed.
NextFaultFree ==
  \/ \E j \in Jobs :
       \/ \E flag \in BOOLEAN : ScanStart(j, flag)
       \/ TaskStep(j)
  \/ AnchorReqStep

FaultFreeSpec ==
  Init /\ [][NextFaultFree]_vars /\ \A j \in Jobs : WF_vars(TaskStep(j))

----------------------------------------------------------------------------
(* stripUndefinedDeep on its own *)

\* Items and property values of the inputs: absent, null, falsy and truthy
\* scalars, empty and non-empty arrays and objects.
SanElements ==
  { JUndefined, JNull, JNum(0), JNum(1), JStr(""), JStr("x"),
    EmptyArr, JArr(<< JNum(1) >>), EmptyObj, JObj([a |-> JNull]) }

SanArrays ==
  { JArr(a) : a \in UNION { [1..n -> SanElements] : n \in 0..MaxItems } }

\* An ordinary key, an excluded key and a stringified key.
SanKeys == { "a", "heatmap", "forensic_findings" }

SanObjects ==
  { JObj(f) : f \in UNION { [K -> SanElements] : K \in SUBSET SanKeys } }

SanitizerInputs == SanElements \cup SanArrays \cup SanObjects

SanitizerInit ==
  /\ ServiceInit
  /\ sanInput \in SanitizerInputs
  /\ sanPasses = << >>
  /\ splitInput = NullObj
  /\ splitOutput = NullObj

\* stripUndefinedDeep(x)
SanitizeInput ==
  /\ sanPasses = << >>
  /\ sanPasses' = << stripUndefinedDeep(sanInput) >>
  /\ UNCHANGED << sanInput, splitInput, splitOutput, serviceVars >>

\* stripUndefinedDeep applied to its own output
SanitizeOutput ==
  /\ Len(sanPasses) = 1
  /\ sanPasses' = Append(sanPasses, stripUndefinedDeep(sanPasses[1]))
  /\ UNCHANGED << sanInput, splitInput, splitOutput, serviceVars >>

SanitizerNext == SanitizeInput \/ SanitizeOutput

SanitizerSpec == SanitizerInit /\ [][SanitizerNext]_vars

----------------------------------------------------------------------------
(* LAYERS 1-5 and the size check on their own *)

\* Findings lists of n entries F1..Fn, and the same with a null second entry.
Findings(n) == [i \in 1..n |-> JStr("F" \o ToString(i))]
FindingsWithNull(n) == [i \in 1..n |-> IF i = 2 THEN JNull ELSE JStr("F" \o ToString(i))]

FindingsLists ==
  { JArr(Findings(n)) : n \in 0..MaxFindings }
    \cup { JArr(FindingsWithNull(n)) : n \in 2..MaxFindings }

\* Forensic reports: each key is absent (undefined) or holds one of the values.
ForensicReports ==
  { JObj([forensic_findings |-> ff, heatmap |-> hm, pixel_diff |-> pd,
          ela_analysis |-> ela, technical_details |-> td]) :
      ff \in {JUndefined} \cup FindingsLists,
      hm \in {JUndefined, EmptyArr, JArr(<< JArr(<< JNum(3), JNum(9) >>) >>)},
      pd \in {JUndefined, JObj([changed |-> JNum(2048)])},
      ela \in {JUndefined, JObj([regions |-> JArr(<< JNum(5) >>)])},
      td \in {JUndefined, JObj([ela_mean |-> JNum(7)])} }

\* Agent traces: absent, one entry, MaxFindings entries.
AgentTrace(n) == JArr([i \in 1..n |-> JObj([agent |-> JStr("vision"), step |-> JNum(i)])])
AgentTraces == { JUndefined, AgentTrace(1), AgentTrace(MaxFindings) }

\* Texts: short, 400,000 three-byte characters, 1 MiB of one-byte characters.
OcrTexts ==
  { [len |-> 120, bytes |-> 120],
    [len |-> 400000, bytes |-> 1200000],
    [len |-> 1048576, bytes |-> 1048576] }

SplitAnswers ==
  { [trust_score |-> Some(92), verdict |-> "authentic",
     ocr_len |-> t.len, ocr_bytes |-> t.bytes,
     forensic_details |-> fd, agent_logs |-> al] :
      t \in OcrTexts,
      fd \in {JUndefined} \cup ForensicReports,
      al \in AgentTraces }

SplitInit ==
  /\ ServiceInit
  /\ sanInput = JUndefined
  /\ sanPasses = << >>
  /\ splitInput \in { Some(r) : r \in SplitAnswers }
  /\ splitOutput = NullObj

\* LAYERS 1-5: cleanedMain and cleanedSidecar are computed.
SplitPayloads ==
  /\ splitOutput = NullObj
  /\ splitOutput' = Some([main |-> MainAnalysis(splitInput[1]),
                          sidecar |-> CleanedSidecar(splitInput[1]),
                          verdict |-> "unchecked"])
  /\ UNCHANGED << sanInput, sanPasses, splitInput, serviceVars >>

\* if (mainSize > 1048576) throw ...; else the batch is built.
SizeCheck ==
  /\ splitOutput # NullObj
  /\ splitOutput[1].verdict = "unchecked"
  /\ splitOutput' =
       IF MainSize(splitInput[1]) > FirestoreLimit
         THEN Some([splitOutput[1] EXCEPT
                      !.verdict = PayloadTooLargeMessage(MainSize(splitInput[1]))])
         ELSE Some([splitOutput[1] EXCEPT !.verdict = "batch"])
  /\ UNCHANGED << sanInput, sanPasses, splitInput, serviceVars >>

SplitNext == SplitPayloads \/ SizeCheck

SplitSpec == SplitInit /\ [][SplitNext]_vars

----------------------------------------------------------------------------
(* ReceiptsGateway on its own: sockets connect, subscribe and disconnect
   while the service emits.  Timestamps of the messages are left out. *)

\* The acknowledgement of handleSubscribe.
Subscribed(j) == [event |-> "subscribed", receipt_id |-> j, n |-> 0, payload |-> << >>]

\* The message of the n-th event emitted to room j.
RoomMessage(j, n, ev) ==
  [event |-> ev.type, receipt_id |-> j, n |-> n, payload |-> << ev >>]

\* A plausible slip: server.emit(...) reaches every connected socket.
Deliver_Broadcast(j, ev) ==
  [c \in Clients |->
     IF sockets[c] = "open"
       THEN Append(inbox[c], RoomMessage(j, Len(events[j]) + 1, ev))
       ELSE inbox[c]]

\* this.server.to(receiptId).emit(...): the sockets in the room receive it.
Deliver(j, ev) ==
  [c \in Clients |->
     IF j \in rooms[c]
       THEN Append(inbox[c], RoomMessage(j, Len(events[j]) + 1, ev))
       ELSE inbox[c]]

Emitted == SumOver([j \in Jobs |-> Len(events[j])], Jobs)
Acks(c) == Len(SelectSeq(inbox[c], LAMBDA m : m.event = "subscribed"))
Subscribes == SumOver([c \in Clients |-> Acks(c)], Clients)

\* A socket connects: handleConnection counts it.
handleConnection(c) ==
  /\ sockets[c] = "fresh"
  /\ sockets' = [sockets EXCEPT ![c] = "open"]
  /\ connectedClients' = [connectedClients EXCEPT ![c] = @ + 1]
  /\ UNCHANGED << rooms, inbox, events, pipelineVars >>

\* A socket disconnects: it leaves its rooms; handleDisconnect deletes its
\* entry when the count is at most 1.
handleDisconnect(c) ==
  /\ sockets[c] = "open"
  /\ sockets' = [sockets EXCEPT ![c] = "closed"]
  /\ rooms' = [rooms EXCEPT ![c] = {}]
  /\ connectedClients' =
       IF connectedClients[c] <= 1 THEN [connectedClients EXCEPT ![c] = 0]
       ELSE connectedClients
  /\ UNCHANGED << inbox, events, pipelineVars >>

\* A plausible slip: the socket joins the room and is not answered.
handleSubscribe_NoAck(c, j) ==
  /\ sockets[c] = "open"
  /\ Subscribes < MaxSubscribes
  /\ rooms' = [rooms EXCEPT ![c] = @ \cup {j}]
  /\ UNCHANGED << inbox, sockets, connectedClients, events, pipelineVars >>

\* @SubscribeMessage('subscribe'): client.join(receiptId); client.emit('subscribed').
handleSubscribe(c, j) ==
  /\ sockets[c] = "open"
  /\ Subscribes < MaxSubscribes
  /\ rooms' = [rooms EXCEPT ![c] = @ \cup {j}]
  /\ inbox' = [inbox EXCEPT ![c] = Append(@, Subscribed(j))]
  /\ UNCHANGED << sockets, connectedClients, events, pipelineVars >>

\* The service calls emitProgress(receiptId, 40, 'forensics_running', ...).
GatewayEmitProgress(j) ==
  /\ Emitted < MaxEmits
  /\ LET ev == [type |-> "progress", progress |-> PctForensicsRunning,
                status |-> "forensics_running"]
     IN  /\ inbox' = Deliver(j, ev)
         /\ events' = emitProgress(events, j, ev.progress, ev.status)
  /\ UNCHANGED << sockets, connectedClients, rooms, pipelineVars >>

\* The service calls emitComplete(receiptId, finalDoc.data()).
GatewayEmitComplete(j) ==
  /\ Emitted < MaxEmits
  /\ inbox' = Deliver(j, [type |-> "complete", data |-> doc[j]])
  /\ events' = emitComplete(events, j, doc[j])
  /\ UNCHANGED << sockets, connectedClients, rooms, pipelineVars >>

\* The service calls emitError(receiptId, userFriendlyError).
GatewayEmitError(j) ==
  /\ Emitted < MaxEmits
  /\ inbox' = Deliver(j, [type |-> "error", error |-> FriendlyTimeout])
  /\ events' = emitError(events, j, FriendlyTimeout)
  /\ UNCHANGED << sockets, connectedClients, rooms, pipelineVars >>

GatewayNext ==
  \/ \E c \in Clients :
       \/ handleConnection(c)
       \/ handleDisconnect(c)
       \/ \E j \in Jobs : handleSubscribe(c, j)
  \/ \E j \in Jobs :
       \/ GatewayEmitProgress(j)
       \/ GatewayEmitComplete(j)
       \/ GatewayEmitError(j)

GatewaySpec == Init /\ [][GatewayNext]_vars

----------------------------------------------------------------------------
(* Vocabulary of the properties *)

Terminal(e) == e.type \in {"complete", "error"}

TerminalCount(j) ==
  Cardinality({i \in 1..Len(events[j]) : Terminal(events[j][i])})

Percents(j) ==
  [i \in {k \in 1..Len(events[j]) : events[j][k].type = "progress"} |->
     events[j][i].progress]

\* scanReceipt and the task it started have run to their end.
TaskEnded(j) == pc[j] \in {"done", "rejected"}
PipelineEnded(j) == pc[j] \in {"scan_threw", "done", "rejected"}

LastEvent(j) == events[j][Len(events[j])]

\* The client's timeout signal, as the inner catch recognises it.
TimeoutSignal(e) == e.code = "ECONNABORTED" \/ Includes(e.message, "timeout")

\* The message body of a non-2xx answer: detail, else message, else none.
UpstreamMessage(e) ==
  IF Truthy(e.detail) THEN e.detail
  ELSE IF Truthy(e.bodyMessage) THEN e.bodyMessage
  ELSE Undefined

ClassifierKeywords ==
  { "timeout", "unavailable", "ECONNREFUSED", "invalid image", "format",
    "too large", "exceeds" }

HasKeyword(m) == \E k \in ClassifierKeywords : Includes(m, k)

\* HasKeyword over the upstream messages, tabulated.
KeywordIn == [m \in { UpstreamMessage(e) : e \in AxiosRejected } |-> HasKeyword(m)]

\* The failure write and the error event carry the message the catch computed.
FailurePersisted(j) ==
  (pc[j] = "fail_write" /\ pc'[j] = "done" /\ FailWriteOk(j)) =>
    /\ doc'[j].status = "failed"
    /\ doc'[j].error = userFriendlyError[j]
    /\ events'[j][Len(events'[j])] = [type |-> "error", error |-> userFriendlyError[j]]

----------------------------------------------------------------------------
(* C1 - anchor non-fatality *)

\* C1: when the analysis succeeded, the dual write committed and the
\* pipeline's anchorToHCS call failed, the job record ends with
\* status=completed, no error field and hedera_anchor=null.
C1_AnchorNonFatal ==
  \A j \in Jobs :
    (TaskEnded(j) /\ caught[j].step = "anchorToHCS") =>
      /\ doc[j].status = "completed"
      /\ doc[j].error = Absent
      /\ doc[j].hedera_anchor = NullObj

----------------------------------------------------------------------------
(* C2 - terminal states are absorbing *)

\* C2: the record is created with status=processing, the only status
\* transitions are processing->completed and processing->failed, and a
\* completed or failed status is never changed by any later step.
C2_TerminalAbsorbing ==
  [][\A j \in Jobs :
       doc'[j].status # doc[j].status =>
         \/ ~doc[j].exists /\ doc'[j].status = "processing"
         \/ doc[j].status = "processing" /\ doc'[j].status \in {"completed", "failed"}
    ]_vars

----------------------------------------------------------------------------
(* C3 - job record invariant *)

\* C3: in every reachable state, status=completed implies a non-null analysis
\* and no error; status=failed implies a non-null, non-empty error message.
C3_RecordInvariant ==
  \A j \in Jobs :
    /\ doc[j].status = "completed" =>
         doc[j].analysis # NullObj /\ doc[j].error = Absent
    /\ doc[j].status = "failed" =>
         doc[j].error \notin {Absent, Undefined, ""}

\* A job failed on an error whose message is empty, after its completion write.
C3_Witness ==
  \E j \in Jobs :
    /\ doc[j].status = "failed"
    /\ caught[j].message = ""
    /\ doc[j].analysis # NullObj

----------------------------------------------------------------------------
(* C4 - state-machine totality *)

\* C4: in the fault-free environment, under fairness of the background task,
\* every job whose scanReceipt returned a job id eventually has status
\* completed for good or status failed for good.
C4_Totality ==
  /\ \A j \in Jobs :
       <>[](scanReturn[j] = "ok" => doc[j].status \in {"completed", "failed"})
  /\ [][\A j \in Jobs :
          doc[j].status \in {"completed", "failed"} =>
            doc'[j].status = doc[j].status]_vars

\* A job the analyzer rejected has failed, and the task has ended.
C4_Witness ==
  \E j \in Jobs :
    /\ scanReturn[j] = "ok"
    /\ pc[j] = "done"
    /\ caught[j].step = "analyzer"
    /\ doc[j].status = "failed"

----------------------------------------------------------------------------
(* C5 - single terminal event *)

\* C5: the events of a submitted job contain exactly one terminal event
\* (complete or error; never zero once the task has ended, never two), and no
\* event follows it.
C5_SingleTerminalEvent ==
  \A j \in Jobs :
    /\ TerminalCount(j) <= 1
    /\ TerminalCount(j) = 1 => Terminal(LastEvent(j))
    /\ (scanReturn[j] = "ok" /\ TaskEnded(j)) => TerminalCount(j) = 1

----------------------------------------------------------------------------
(* C6 - progress monotonicity *)

\* C6: on every path the percents passed to emitProgress for a job are
\* non-decreasing and lie in 0..100.
C6_ProgressMonotone ==
  \A j \in Jobs :
    LET p == Percents(j)
    IN  /\ \A i \in DOMAIN p : p[i] \in 0..100
        /\ \A i, k \in DOMAIN p : i < k => p[i] <= p[k]

\* A job went through every emitProgress call of the anchoring path.
C6_Witness ==
  \E j \in Jobs :
    /\ Len(events[j]) >= 7
    /\ events[j][6].type = "progress" /\ events[j][6].status = "hedera_anchoring"
    /\ events[j][7].type = "progress" /\ events[j][7].status = "hedera_anchored"

----------------------------------------------------------------------------
(* C7 - the terminal event follows the terminal write *)

\* C7: whenever a complete (resp. error) event has been emitted for a job, the
\* record holds status completed (resp. failed), so getReceipt after the
\* event never returns status processing.
C7_EventAfterWrite ==
  \A j \in Jobs :
    \A i \in 1..Len(events[j]) :
      /\ events[j][i].type = "complete" =>
           getReceipt(j).success /\ getReceipt(j).data.status = "completed"
      /\ events[j][i].type = "error" =>
           getReceipt(j).success /\ getReceipt(j).data.status = "failed"

\* A complete event was emitted.
C7_Witness ==
  \E j \in Jobs : events[j] # << >> /\ LastEvent(j).type = "complete"

----------------------------------------------------------------------------
(* C8 - no failure is silent *)

\* C8: on every failure path a terminal event is emitted, so no execution
\* ends with progress events emitted for a job id but no terminal event.
C8_NoSilentFailure ==
  \A j \in Jobs :
    (PipelineEnded(j) /\ events[j] # << >>) => TerminalCount(j) >= 1

----------------------------------------------------------------------------
(* C9 - timeout classification *)

\* C9: when the analyzer call fails with the client's timeout signal, the job
\* ends failed and the persisted error and the error event carry the
\* timeout-class message 'Analysis timed out ...'.
C9_TimeoutClassification ==
  [][\A j \in Jobs :
       /\ \A e \in AiErrors :
            (TimeoutSignal(e) /\ AiFail(j, e)) =>
              userFriendlyError'[j] = FriendlyTimeout
       /\ FailurePersisted(j)
    ]_vars

----------------------------------------------------------------------------
(* C10 - rejected-analysis message passthrough *)

\* C10 as claimed: after a non-2xx answer the persisted error and the error
\* event equal the upstream body message verbatim, for every message; with no
\* body message they equal the generic message.
C10_Passthrough ==
  [][\A j \in Jobs :
       /\ \A e \in AxiosRejected :
            AiFail(j, e) =>
              userFriendlyError'[j] =
                IF UpstreamMessage(e) = Undefined THEN AiGenericMessage
                ELSE UpstreamMessage(e)
       /\ FailurePersisted(j)
    ]_vars

\* C10 as amended: the upstream body message (a non-empty detail, else a
\* non-empty message) is persisted and emitted verbatim when it contains none
\* of the classifier's keywords; one that contains a keyword is replaced by a
\* class message; with no body message the generic message is used.
C10_PassthroughUnlessClassified ==
  [][\A j \in Jobs :
       /\ (pc[j] = "ai_call" /\ pc'[j] = "fail_write") =>
            \A e \in AxiosRejected :
              AiFail(j, e) =>
                LET m == UpstreamMessage(e)
                IN  /\ m = Undefined => userFriendlyError'[j] = AiGenericMessage
                    /\ (m # Undefined /\ ~KeywordIn[m]) => userFriendlyError'[j] = m
                    /\ (m # Undefined /\ KeywordIn[m]) =>
                         userFriendlyError'[j] \in
                           { FriendlyTimeout, FriendlyUnavailable,
                             FriendlyInvalidImage, FriendlyTooLarge }
       /\ FailurePersisted(j)
    ]_vars

\* An upstream message was persisted verbatim and emitted.
C10_Witness ==
  \E j \in Jobs :
    /\ caught[j].step = "analyzer"
    /\ doc[j].status = "failed"
    /\ doc[j].error = "Could not read receipt"
    /\ LastEvent(j) = [type |-> "error", error |-> "Could not read receipt"]

----------------------------------------------------------------------------
(* C11 - intake failure creates nothing *)

\* scanReceipt threw to its caller.
ScanThrew(j) == scanReturn[j] \notin {"none", "ok"}

\* analyzeReceiptAsync was called: its first statement emitted ocr_started.
TaskStarted(j) ==
  \E i \in 1..Len(events[j]) :
    events[j][i].type = "progress" /\ events[j][i].status = "ocr_started"

\* C11: when uploadToCloudinary fails inside scanReceipt, the caller gets the
\* error, no record exists for the generated id and the background task is
\* never started.
C11_IntakeFailureCreatesNothing ==
  \A j \in Jobs :
    /\ pc[j] = "scan_threw" => ScanThrew(j)
    /\ scanReturn[j] = UploadError =>
         /\ pc[j] = "scan_threw"
         /\ ~doc[j].exists
         /\ sidecar[j] = NullObj
         /\ ~TaskStarted(j)
         /\ caught[j] = NothingCaught

\* The upload of a submitted receipt failed.
C11_Witness ==
  \E j \in Jobs : scanReturn[j] = UploadError /\ events[j] # << >>

----------------------------------------------------------------------------
(* C12 - submit fails only on blob-storage failure *)

\* C12: scanReceipt throws to its caller if and only if storing the blob
\* failed; every other failure is reported through the record (status failed)
\* and a terminal event; on success scanReceipt has returned the job id before
\* the analyzer call finishes.
C12_SubmitFailsOnlyOnBlobFailure ==
  \A j \in Jobs :
    /\ ScanThrew(j) <=> scanReturn[j] = UploadError
    /\ (PipelineEnded(j) /\ scanReturn[j] # UploadError /\
        (ScanThrew(j) \/ caught[j] # NothingCaught)) =>
         doc[j].status = "failed" /\ TerminalCount(j) >= 1
    /\ pc[j] \in {"ocr_wait", "forensics_wait", "ai_call"} => scanReturn[j] = "ok"

----------------------------------------------------------------------------
(* C13 - field segregation *)

\* The answer handed to the split, and the two payloads it hands to the batch.
Answer == splitInput[1]
Summary == splitOutput[1].main
Sidecar == splitOutput[1].sidecar
Batched == splitOutput # NullObj /\ splitOutput[1].verdict = "batch"

\* An array or object with content.
NonEmpty(v) == TypeOf(v) \in {"array", "object"} /\ v[2] # << >>

\* C13: for every answer whose forensic_details holds heatmap, pixel_diff or
\* ela_analysis with non-empty content, the sidecar document the pipeline
\* writes holds that field with the analyzer's content and the summary does
\* not hold it.
C13_FieldSegregation ==
  Batched =>
    \A k \in {"heatmap", "pixel_diff", "ela_analysis"} :
      LET raw == Get(Answer.forensic_details, k)
      IN  NonEmpty(raw) =>
            /\ Get(Sidecar, k) = raw
            /\ Get(Summary.forensic_details, k) = JUndefined

----------------------------------------------------------------------------
(* C14 - size postcondition *)

\* Size in bytes of the serialization MainSize measures in UTF-16 code units
\* (the skeleton is ASCII).
MainBytes(r) == MainSkeletonSize + r.ocr_bytes

\* C14: whatever the answer, the summary the pipeline hands to the batch takes
\* at most 1,048,576 bytes, and an answer whose summary would take more fails
\* with the payload-too-large error.
C14_SizePostcondition ==
  (splitOutput # NullObj /\ splitOutput[1].verdict # "unchecked") =>
    IF MainBytes(Answer) <= FirestoreLimit
      THEN splitOutput[1].verdict = "batch"
      ELSE splitOutput[1].verdict = PayloadTooLargeMessage(MainSize(Answer))

----------------------------------------------------------------------------
(* C15 - size overflow is fatal, nothing is persisted *)

----------------------------------------------------------------------------
(* C16 - excerpt bound *)

\* The findings list of the answer, and the copies the two payloads hold.
RawFindings == Get(Answer.forensic_details, "forensic_findings")
SummaryFindings == Get(Summary.forensic_details, "forensic_findings")
SidecarFindings == Get(Sidecar, "forensic_findings_full")
LongFindings ==
  /\ Batched
  /\ TypeOf(RawFindings) = "array"
  /\ Len(RawFindings[2]) > 5

----------------------------------------------------------------------------
(* C17 - sanitizer idempotence *)

\* C17: for every nested input x, stripUndefinedDeep applied to its own output
\* returns that output: stripUndefinedDeep(stripUndefinedDeep(x)) equals
\* stripUndefinedDeep(x).
C17_SanitizerIdempotent ==
  Len(sanPasses) = 2 => sanPasses[2] = sanPasses[1]

----------------------------------------------------------------------------
(* C18 - atomic dual write *)

\* C18: in every state a reader can observe, the sidecar document of a job
\* exists if and only if its record carries the completion write (a non-null
\* summary); after a failed commit neither has been written.
C18_AtomicDualWrite ==
  \A j \in Jobs :
    /\ sidecar[j] # NullObj <=> doc[j].analysis # NullObj
    /\ caught[j].step = "commit" => sidecar[j] = NullObj /\ doc[j].analysis = NullObj

\* A commit failed, and the task's catch has written the failure.
C18_Witness ==
  \E j \in Jobs :
    /\ caught[j].step = "commit"
    /\ doc[j].status = "failed"
    /\ sidecar[j] = NullObj

----------------------------------------------------------------------------
(* C19 - single writer per job *)

\* C19: after its creation, the record of a job changes only in steps of the
\* job's own background task; no step of a request handler changes it.
C19_SingleWriter ==
  [][\A j \in Jobs :
       (doc[j].exists /\ doc'[j] # doc[j]) => pc'[j] # pc[j]]_vars

----------------------------------------------------------------------------
(* C20 - re-anchoring is a no-op success *)

\* C20: when anchorReceiptToHedera has read a record whose hedera_anchor is
\* non-null, its next step ends the call: it returns success with the anchor
\* the record holds (or rethrows the rejection of the read), without
\* submitting to the ledger and without changing any record.
C20_ReanchorNoOp ==
  [][(/\ areq.pc = "get"
      /\ doc[areq.job].hedera_anchor # NullObj
      /\ areq' # areq) =>
       /\ UNCHANGED << doc, ledger >>
       /\ areq'.pc = "returned"
       /\ \/ areq'.response = Returned(AlreadyAnchored, doc[areq.job].hedera_anchor)
          \/ areq'.response \in { Thrown(m) : m \in PersistenceErrors }]_vars

\* A request for an anchored, completed job returned the existing anchor.
C20_Witness ==
  /\ areq.pc = "returned"
  /\ doc[areq.job].status = "completed"
  /\ doc[areq.job].hedera_anchor # NullObj
  /\ areq.response = Returned(AlreadyAnchored, doc[areq.job].hedera_anchor)

----------------------------------------------------------------------------
(* C21 - fan-out without replay *)

\* What client c received in the step, and the part of it about room j.
Received(c) == SubSeq(inbox'[c], Len(inbox[c]) + 1, Len(inbox'[c]))
ReceivedOf(c, j) ==
  SelectSeq(Received(c), LAMBDA m : m.event # "subscribed" /\ m.receipt_id = j)

\* C21: a step that emits an event for job j delivers it to exactly the
\* sockets that are in room j before the step; no client receives an event of
\* a job in any other step, so an event emitted before a socket joined never
\* reaches it; what a client received is never taken back.
C21_FanOutNoReplay ==
  [][\A c \in Clients :
       /\ Len(inbox'[c]) >= Len(inbox[c])
       /\ SubSeq(inbox'[c], 1, Len(inbox[c])) = inbox[c]
       /\ \A j \in Jobs :
            IF events'[j] # events[j] /\ j \in rooms[c]
              THEN ReceivedOf(c, j) =
                     << RoomMessage(j, Len(events'[j]), events'[j][Len(events'[j])]) >>
              ELSE ReceivedOf(c, j) = << >>]_vars

\* A socket that joined the room of a job after its first event received the
\* second event only, and a socket in another room none.
C21_Witness ==
  \E j \in Jobs : \E c, d \in Clients :
    /\ Len(events[j]) = 2
    /\ j \in rooms[c]
    /\ \E i \in DOMAIN inbox[c] : inbox[c][i].receipt_id = j /\ inbox[c][i].n = 2
    /\ \A i \in DOMAIN inbox[c] : inbox[c][i].n # 1
    /\ rooms[d] # {} /\ j \notin rooms[d]
    /\ \A i \in DOMAIN inbox[d] : inbox[d][i].receipt_id # j

----------------------------------------------------------------------------
(* C22 - job independence *)

\* C22: whatever the other job's task does, the events of a job have
\* non-decreasing percents and, once its task has ended, exactly one terminal
\* event; its final status, error and summary follow from what its own awaited
\* calls did (completed with the summary of its own answer when none of them
\* threw, failed with the message of its own error otherwise).
C22_JobIndependence ==
  \A a \in Jobs :
    /\ \A i, k \in DOMAIN Percents(a) : i < k => Percents(a)[i] <= Percents(a)[k]
    /\ TerminalCount(a) <= 1
    /\ (scanReturn[a] = "ok" /\ TaskEnded(a)) =>
         /\ TerminalCount(a) = 1
         /\ IF caught[a].step = "none"
              THEN /\ doc[a].status = "completed"
                   /\ doc[a].analysis = Some(Split[analysisResult[a][1]].main)
              ELSE /\ doc[a].status = "failed"
                   /\ doc[a].error = Friendly[caught[a].message]

----------------------------------------------------------------------------
(* C23 - sanitizer null/absent rule *)

\* Null, absent and scalar values.
Flat(v) == TypeOf(v) \notin {"array", "object"}
Present(v) == v # JUndefined

\* C23: the sanitizer drops an absent value wherever it stands (top level,
\* array element, object field) without making it null, and keeps a null
\* where it stands, in arrays and objects alike.  Stated on the inputs no
\* other rule applies to: flat values, arrays of flat values, and objects
\* with flat values under an ordinary key.
C23_NullAbsentRule ==
  Len(sanPasses) >= 1 =>
    LET out == sanPasses[1]
    IN  /\ sanInput = JUndefined => out # JNull
        /\ sanInput = JNull => out = JNull
        /\ (TypeOf(sanInput) = "array" /\ \A i \in DOMAIN sanInput[2] : Flat(sanInput[2][i])) =>
             out = JArr(SelectSeq(sanInput[2], Present))
        /\ (TypeOf(sanInput) = "object" /\ DOMAIN sanInput[2] = {"a"} /\ Flat(sanInput[2].a)) =>
             out = IF Present(sanInput[2].a) THEN sanInput ELSE EmptyObj

----------------------------------------------------------------------------
(* C24 - no nested arrays after sanitizing *)

RECURSIVE HasNestedArray(_)
\* v holds, at some depth, an array with an array as a direct element.
HasNestedArray(v) ==
  IF TypeOf(v) = "array"
    THEN \E i \in DOMAIN v[2] : TypeOf(v[2][i]) = "array" \/ HasNestedArray(v[2][i])
  ELSE IF TypeOf(v) = "object"
    THEN \E k \in DOMAIN v[2] : HasNestedArray(v[2][k])
  ELSE FALSE

\* C24: the output of stripUndefinedDeep holds no array with an array as a
\* direct element, wherever the inner array stands in the outer one.
C24_NoNestedArrays ==
  Len(sanPasses) >= 1 => ~HasNestedArray(sanPasses[1])

----------------------------------------------------------------------------
(* C25 - bulky fields are projected, not duplicated *)

\* The agent trace of the answer, and the entries the two payloads hold of it.
RawTrace == AgentLogs(Answer)
SummaryTrace == safeParse(Get(Summary.forensic_details, "agent_logs"))
SidecarTrace == safeParse(Get(Sidecar, "agent_logs"))

\* C25: the sidecar holds the agent trace and the technical details in full,
\* and the summary holds no technical details and at most the first 5 entries
\* of the agent trace, as it does of the findings list.
C25_BulkyFieldsProjected ==
  Batched =>
    /\ SidecarTrace = RawTrace
    /\ safeParse(Get(Sidecar, "technical_details")) =
         Get(ForensicDetails(Answer), "technical_details")
    /\ Get(Summary.forensic_details, "technical_details") = JUndefined
    /\ TypeOf(SummaryTrace) = "array"
    /\ Len(SummaryTrace[2]) <= FindingsExcerpt

----------------------------------------------------------------------------
(* C26 - subscribe is an idempotent join with acknowledgement *)

\* Acknowledgements client c received for job j.
AcksFor(c, j) == Len(SelectSeq(inbox[c], LAMBDA m : m = Subscribed(j)))

\* Copies of the n-th event of job j that client c received.
Copies(c, j, n) ==
  Cardinality({i \in DOMAIN inbox[c] :
                 /\ inbox[c][i].event # "subscribed"
                 /\ inbox[c][i].receipt_id = j
                 /\ inbox[c][i].n = n})

\* C26: a socket is in the room of a job only if its subscribe was
\* acknowledged with that job id, a connected socket that was acknowledged is
\* in the room, and however many times it subscribed, it received each event
\* of the job at most once.
C26_IdempotentJoin ==
  \A c \in Clients : \A j \in Jobs :
    /\ j \in rooms[c] => AcksFor(c, j) >= 1
    /\ (sockets[c] = "open" /\ AcksFor(c, j) >= 1) => j \in rooms[c]
    /\ \A n \in 1..Len(events[j]) : Copies(c, j, n) <= 1

\* A client that subscribed twice to a job received the job's next event once.
C26_Witness ==
  \E c \in Clients : \E j \in Jobs :
    /\ Len(inbox[c]) = 3
    /\ inbox[c][1] = Subscribed(j)
    /\ inbox[c][2] = Subscribed(j)
    /\ inbox[c][3].receipt_id = j /\ inbox[c][3].n = 1
    /\ Copies(c, j, 1) = 1

----------------------------------------------------------------------------
(* C27 - anchoring only of completed jobs *)

\* C27: in every reachable state a record holds an anchor only if its status
\* is completed.
C27_AnchorOnlyCompleted ==
  \A j \in Jobs :
    doc[j].hedera_anchor # NullObj => doc[j].status = "completed"

----------------------------------------------------------------------------
(* C28 - progress events are observable by the submitter *)

\* C28: every progress event of a job is emitted when the record exists and
\* scanReceipt has returned the job id.
C28_ProgressAfterReturn ==
  [][\A j \in Jobs :
       (events'[j] # events[j] /\ events'[j][Len(events'[j])].type = "progress") =>
         /\ doc[j].exists
         /\ scanReturn[j] = "ok"]_vars

----------------------------------------------------------------------------
(* C29 - at most one ledger submission per job *)

\* C29: the topic holds at most one message about a receipt, whoever
\* submitted it.
C29_OneSubmissionPerJob ==
  \A j \in Jobs : TopicMessages(j) <= 1

----------------------------------------------------------------------------
(* C30 - writes preserve intake fields *)

\* C30: every write to an existing record (completion, failure, anchor) leaves
\* receipt_id, user_id, storage_path and cloudinary_public_id as they are; the
\* failure write leaves analysis and hedera_anchor as they are, and an anchor
\* write leaves status, analysis and error as they are.
C30_WritesPreserveIntake ==
  [][\A j \in Jobs :
       (doc[j].exists /\ doc'[j] # doc[j]) =>
         /\ doc'[j].exists
         /\ \A f \in IntakeFields : doc'[j][f] = doc[j][f]
         /\ (doc'[j].status = "failed" /\ doc[j].status # "failed") =>
              /\ doc'[j].analysis = doc[j].analysis
              /\ doc'[j].hedera_anchor = doc[j].hedera_anchor
         /\ doc'[j].hedera_anchor # doc[j].hedera_anchor =>
              /\ doc'[j].status = doc[j].status
              /\ doc'[j].analysis = doc[j].analysis
              /\ doc'[j].error = doc[j].error]_vars

\* A record went through the completion write, an anchor write and the
\* failure write and holds what scanReceipt wrote at creation.
C30_Witness ==
  \E j \in Jobs :
    /\ doc[j].status = "failed"
    /\ doc[j].analysis # NullObj
    /\ doc[j].hedera_anchor # NullObj
    /\ \A f \in IntakeFields : doc[j][f] = CreateRecord[j][f]
    /\ doc[j].user_id \in {"user-1", "anonymous"}

====
